---- MODULE Spec2Model ----
(***************************************************************************)
(* Model of src/virt/libvirt_lxc_cmd.py: one invocation of the Ansible     *)
(* module libvirt_lxc_cmd, which runs a command inside a libvirt LXC       *)
(* container through `virsh lxc-enter-namespace`, optionally guarded by    *)
(* creates / unless / onlyif.                                              *)
(*                                                                         *)
(* Strings are sequences of characters (one-character TLA+ strings).       *)
(* Fixed words that the code never takes apart ("virsh", "--cmd", the      *)
(* connection URI, the container name) are one-element sequences holding   *)
(* the whole word.  Python's None and the absent XML element / attribute   *)
(* are one-element sequences whose element is outside every alphabet.      *)
(***************************************************************************)
EXTENDS Naturals, Sequences, FiniteSets

\* ------------------------------------------------------------------ bounds
MaxCmdLen == 2
MaxGuardLen == 1
MaxPathLen == 2
MaxFs == 1

\* ------------------------------------------------------------ value space
None == <<"<None>">>
NoElem == <<"<no element>">>
NoAttr == <<"<no attribute>">>

RECURSIVE StringsUpTo(_, _)
StringsUpTo(chars, n) ==
    IF n = 0 THEN {<<>>}
    ELSE LET shorter == StringsUpTo(chars, n - 1)
         IN  shorter \cup {Append(s, c) : s \in shorter, c \in chars}

\* characters a command line is drawn from: a word character, a blank, a quote
CmdChars == {"a", " ", "'"}
\* characters a creates path is drawn from
PathChars == {"/", "p"}

CmdParams == StringsUpTo(CmdChars, MaxCmdLen)
GuardParams == {None} \cup StringsUpTo(CmdChars, MaxGuardLen)
CreatesParams == {None} \cup StringsUpTo(PathChars, MaxPathLen)

\* what module.run_command hands back for a child process
RcValues == {0, 1}
OutValues == {None, <<"o", "\r", "\n">>}
ErrValues == {None, <<"e">>}

\* the filesystem devices a domain XML may hold: (target dir, source dir)
RootDir == <<"/", "r">>
FsDevices ==
    { [target |-> NoElem,        source |-> RootDir],
      [target |-> <<"/">>,       source |-> RootDir],
      [target |-> <<"/", "m">>,  source |-> <<"/", "o">>],
      [target |-> <<"/">>,       source |-> <<>>],
      [target |-> <<"/">>,       source |-> NoElem],
      [target |-> <<"/">>,       source |-> NoAttr],
      [target |-> NoAttr,        source |-> RootDir] }

RECURSIVE SeqsUpTo(_, _)
SeqsUpTo(S, n) ==
    IF n = 0 THEN {<<>>}
    ELSE LET shorter == SeqsUpTo(S, n - 1)
         IN  shorter \cup {Append(s, x) : s \in shorter, x \in S}

DomainXmls == SeqsUpTo(FsDevices, MaxFs)

\* paths that may exist on the host
HostPaths == { <<"/", "r", "/", "p">>, <<"/", "p">> }

\* ------------------------------------------------------- python helpers
Truthy(x) == x # None /\ x # <<>>

whitespace == {" ", "\t", "\r", "\n"}
quotes == {"'", "\""}
escape == {"\\"}
escapedquotes == {"\""}

\* str.strip() == '' : the string holds whitespace only
strip_is_empty(s) == \A i \in 1..Len(s) : s[i] \in whitespace

RECURSIVE rstrip(_, _)
rstrip(s, chars) ==
    IF s # <<>> /\ s[Len(s)] \in chars THEN rstrip(SubSeq(s, 1, Len(s) - 1), chars)
    ELSE s

RECURSIVE lstrip(_, _)
lstrip(s, chars) ==
    IF s # <<>> /\ s[1] \in chars THEN lstrip(Tail(s), chars)
    ELSE s

\* os.path.join(a, p) of posixpath for two components
path_join(a, p) ==
    IF p # <<>> /\ p[1] = "/" THEN p
    ELSE IF a = <<>> \/ a[Len(a)] = "/" THEN a \o p
    ELSE a \o <<"/">> \o p

\* shlex.shlex(s, posix=True) with whitespace_split, as shlex.split drives it:
\* the state machine of read_token run over the whole string.  The result is
\* [ok |-> TRUE, tokens |-> ...] or, for ValueError, [ok |-> FALSE, ...].
RECURSIVE read_token(_, _, _, _, _, _, _)
read_token(s, i, state, escapedstate, token, quoted, tokens) ==
    IF i > Len(s) THEN
        IF state = " " THEN [ok |-> TRUE, tokens |-> tokens]
        ELSE IF state = "a" THEN
            [ok |-> TRUE,
             tokens |-> IF token # <<>> \/ quoted THEN Append(tokens, token) ELSE tokens]
        ELSE [ok |-> FALSE, tokens |-> <<>>]
    ELSE LET c == s[i] IN
        IF state = " " THEN
            IF c \in whitespace THEN
                IF token # <<>> \/ quoted
                THEN read_token(s, i + 1, " ", " ", <<>>, FALSE, Append(tokens, token))
                ELSE read_token(s, i + 1, " ", escapedstate, token, quoted, tokens)
            ELSE IF c \in escape THEN
                read_token(s, i + 1, c, "a", token, quoted, tokens)
            ELSE IF c \in quotes THEN
                read_token(s, i + 1, c, escapedstate, token, quoted, tokens)
            ELSE read_token(s, i + 1, "a", escapedstate, <<c>>, quoted, tokens)
        ELSE IF state \in quotes THEN
            IF c = state THEN
                read_token(s, i + 1, "a", escapedstate, token, TRUE, tokens)
            ELSE IF c \in escape /\ state \in escapedquotes THEN
                read_token(s, i + 1, c, state, token, TRUE, tokens)
            ELSE read_token(s, i + 1, state, escapedstate, Append(token, c), TRUE, tokens)
        ELSE IF state \in escape THEN
            LET kept == IF escapedstate \in quotes /\ c # state /\ c # escapedstate
                        THEN Append(token, state) ELSE token
            IN  read_token(s, i + 1, escapedstate, escapedstate, Append(kept, c), quoted, tokens)
        ELSE \* state = "a"
            IF c \in whitespace THEN
                IF token # <<>> \/ quoted
                THEN read_token(s, i + 1, " ", " ", <<>>, FALSE, Append(tokens, token))
                ELSE read_token(s, i + 1, " ", escapedstate, token, quoted, tokens)
            ELSE IF c \in quotes THEN
                read_token(s, i + 1, c, escapedstate, token, quoted, tokens)
            ELSE IF c \in escape THEN
                read_token(s, i + 1, c, "a", token, quoted, tokens)
            ELSE read_token(s, i + 1, "a", escapedstate, Append(token, c), quoted, tokens)

shlex_split(s) == read_token(s, 1, " ", " ", <<>>, FALSE, <<>>)

\* the fixed head of every lxc-enter-namespace argument vector
enter_namespace_args(connection, domain) ==
    << <<"virsh">>, <<"-c">>, connection, <<"lxc-enter-namespace">>,
       <<"--noseclabel">>, domain, <<"--cmd">> >>

\* the dumpxml argument vector of container_root
dumpxml_args(connection, domain) ==
    << <<"virsh">>, <<"-c">>, connection, <<"dumpxml">>, domain >>

\* the loop of container_root over the filesystem devices of the domain XML:
\* the returned value, or the exception line 102 raises when the matching
\* device has no source element (AttributeError) or no dir on it (KeyError)
RECURSIVE find_root(_, _)
find_root(filesystems, i) ==
    IF i > Len(filesystems) THEN [raised |-> "", root |-> None]
    ELSE LET fs == filesystems[i] IN
         IF fs.target # NoElem /\ fs.target = <<"/">> THEN
             IF fs.source = NoElem THEN [raised |-> "AttributeError", root |-> None]
             ELSE IF fs.source = NoAttr THEN [raised |-> "KeyError", root |-> None]
             ELSE [raised |-> "", root |-> fs.source]
         ELSE find_root(filesystems, i + 1)

\* variant: the creates path joined as given, leading separator kept
hostpath_unstripped(root, creates_) == path_join(root, creates_)

\* hostpath of check_exists
hostpath_of(root, creates_) == path_join(root, lstrip(creates_, {"/"}))

\* the guards the conflict check counts
given_guards(c, u, o) == Cardinality({k \in {"creates", "unless", "onlyif"} :
    (k = "creates" /\ c # None) \/ (k = "unless" /\ u # None) \/ (k = "onlyif" /\ o # None)})

\* variant: the conflict check lets two guards through
guards_conflict_above_two(c, u, o) == given_guards(c, u, o) \notin {0, 1, 2}

\* line 154: more than one of creates / unless / onlyif is not None
guards_conflict(c, u, o) == given_guards(c, u, o) \notin {0, 1}

\* variant: the exit code of dumpxml is ignored
dumpxml_never_failed(rc) == FALSE

\* line 93: the dumpxml call failed
dumpxml_failed(rc) == rc # 0

\* line 109: no usable container root
root_missing(root) == ~Truthy(root)

\* variant: the unless test inverted
unless_skips_inverted(rc) == rc # 0

\* line 168: the unless guard asks for a skip
unless_skips(rc) == rc = 0

\* line 180: the onlyif guard asks for a skip
onlyif_skips(rc) == rc # 0

\* `out or ''` of run_command_in_container, and lines 194-197 of main
or_empty(x) == IF Truthy(x) THEN x ELSE <<>>

\* --------------------------------------------------------- result mappings
NoResult == [kind |-> "none", fields |-> <<>>]
Exception(what) == [kind |-> "exception", fields |-> [raised |-> what]]

\* lines 148-149
no_command_result == [kind |-> "fail_json",
    fields |-> [rc |-> 256, msg |-> <<"no command given">>]]

\* line 155
conflict_result == [kind |-> "fail_json",
    fields |-> [msg |-> <<"Unless, creates and onlyif can't be given at the same time.">>]]

\* line 94
dumpxml_failed_result(domain, err) == [kind |-> "fail_json",
    fields |-> [msg |-> <<"Failed to get domain xml for", domain, err>>]]

\* line 110
no_root_result(domain) == [kind |-> "fail_json",
    fields |-> [msg |-> <<"Failed to get container root for", domain>>]]

\* lines 160-163
creates_skip_result(virsh_args_) == [kind |-> "exit_json",
    fields |-> [cmd |-> virsh_args_, changed |-> FALSE]]

\* lines 169-175
unless_skip_result(unless_, cmd_, out, err) == [kind |-> "exit_json",
    fields |-> [msg |-> <<"Skipped since", unless_, "return 0">>,
                stdout |-> rstrip(out, {"\r", "\n"}),
                stderr |-> rstrip(err, {"\r", "\n"}),
                cmd |-> cmd_,
                changed |-> FALSE]]

\* lines 181-187
onlyif_skip_result(onlyif_, cmd_, out, err) == [kind |-> "exit_json",
    fields |-> [msg |-> <<"Skipped since", onlyif_, "did not return 0">>,
                stdout |-> rstrip(out, {"\r", "\n"}),
                stderr |-> rstrip(err, {"\r", "\n"}),
                cmd |-> cmd_,
                changed |-> FALSE]]

\* variant: the result reports the local variable cmd instead of virsh_args
main_result_local_cmd(virsh_args_, cmd_, rc, out, err) == [kind |-> "exit_json",
    fields |-> [cmd |-> cmd_,
                stdout |-> rstrip(or_empty(out), {"\r", "\n"}),
                stderr |-> rstrip(or_empty(err), {"\r", "\n"}),
                rc |-> rc,
                start |-> "startd",
                end |-> "endd",
                delta |-> "endd - startd",
                changed |-> TRUE]]

\* variant: changed follows the exit code of the main command
main_result_changed_on_success(virsh_args_, cmd_, rc, out, err) == [kind |-> "exit_json",
    fields |-> [cmd |-> virsh_args_,
                stdout |-> rstrip(or_empty(out), {"\r", "\n"}),
                stderr |-> rstrip(or_empty(err), {"\r", "\n"}),
                rc |-> rc,
                start |-> "startd",
                end |-> "endd",
                delta |-> "endd - startd",
                changed |-> (rc = 0)]]

\* lines 194-208; cmd_ is the local variable cmd, which the result does not use
main_result(virsh_args_, cmd_, rc, out, err) == [kind |-> "exit_json",
    fields |-> [cmd |-> virsh_args_,
                stdout |-> rstrip(or_empty(out), {"\r", "\n"}),
                stderr |-> rstrip(or_empty(err), {"\r", "\n"}),
                rc |-> rc,
                start |-> "startd",
                end |-> "endd",
                delta |-> "endd - startd",
                changed |-> TRUE]]

\* ------------------------------------------------------------------ state
VARIABLES
    params,      \* module.params: cmd, container, conn, creates, unless, onlyif
    hostFiles,   \* the paths that exist on the host
    pc,          \* the position of main()
    cmd,         \* the local variable cmd of main(): the parameter, later a guard's vector
    virsh_args,  \* the local variable virsh_args of main()
    procs,       \* the external processes started so far, in order
    root,        \* the local variable root of check_exists
    checked,     \* the host paths handed to os.path.exists, in order
    result       \* what the invocation ended with

vars == <<params, hostFiles, pc, cmd, virsh_args, procs, root, checked, result>>

Init ==
    /\ params \in [cmd : CmdParams, container : {<<"cont1">>}, conn : {<<"lxc:///">>},
                   creates : CreatesParams, unless : GuardParams, onlyif : GuardParams]
    /\ hostFiles \in SUBSET HostPaths
    /\ pc = "validate"
    /\ cmd = params.cmd
    /\ virsh_args = <<>>
    /\ procs = <<>>
    /\ root = None
    /\ checked = <<>>
    /\ result = NoResult

\* module.run_command(argv) starts a child process and blocks on it
Started(site, argv) ==
    Append(procs, [site |-> site, argv |-> argv, status |-> "running",
                   rc |-> 0, out |-> None, err |-> None])
Returned(rc, out, err) ==
    [procs EXCEPT ![Len(procs)] = [@ EXCEPT !.status = "done", !.rc = rc, !.out = out, !.err = err]]

Finish(r) == result' = r /\ pc' = "done"

\* lines 148-149
Validate ==
    /\ pc = "validate"
    /\ IF strip_is_empty(cmd) THEN Finish(no_command_result) ELSE (pc' = "tokenize" /\ result' = result)
    /\ UNCHANGED <<params, hostFiles, cmd, virsh_args, procs, root, checked>>

\* lines 151-152
Tokenize ==
    /\ pc = "tokenize"
    /\ LET args == shlex_split(cmd) IN
       IF args.ok
       THEN /\ virsh_args' = enter_namespace_args(params.conn, params.container) \o args.tokens
            /\ pc' = "conflict"
            /\ result' = result
       ELSE /\ Finish(Exception("ValueError"))
            /\ virsh_args' = virsh_args
    /\ UNCHANGED <<params, hostFiles, cmd, procs, root, checked>>

\* lines 154-155
ConflictCheck ==
    /\ pc = "conflict"
    /\ IF guards_conflict(params.creates, params.unless, params.onlyif)
       THEN Finish(conflict_result)
       ELSE pc' = "creates" /\ result' = result
    /\ UNCHANGED <<params, hostFiles, cmd, virsh_args, procs, root, checked>>

\* line 157, and line 91 of container_root through check_exists
CreatesStart ==
    /\ pc = "creates"
    /\ IF Truthy(params.creates)
       THEN /\ procs' = Started("dumpxml", dumpxml_args(params.conn, params.container))
            /\ pc' = "dumpxml"
       ELSE /\ procs' = procs
            /\ pc' = "unless"
    /\ UNCHANGED <<params, hostFiles, cmd, virsh_args, root, checked, result>>

\* lines 91-103 of container_root, 108-114 of check_exists, 159-163 of main
CreatesReturn ==
    /\ pc = "dumpxml"
    /\ \E rc \in RcValues, domxml \in DomainXmls, err \in ErrValues :
        LET found == find_root(domxml, 1)
            hostpath == hostpath_of(found.root, params.creates)
        IN
        /\ procs' = Returned(rc, domxml, err)
        /\ IF dumpxml_failed(rc) THEN
                Finish(dumpxml_failed_result(params.container, err))
                /\ root' = root /\ checked' = checked
           ELSE IF found.raised # "" THEN
                Finish(Exception(found.raised))
                /\ root' = root /\ checked' = checked
           ELSE IF root_missing(found.root) THEN
                Finish(no_root_result(params.container))
                /\ root' = found.root /\ checked' = checked
           ELSE /\ root' = found.root
                /\ checked' = Append(checked, hostpath)
                /\ IF hostpath \in hostFiles
                   THEN Finish(creates_skip_result(virsh_args))
                   ELSE pc' = "unless" /\ result' = result
    /\ UNCHANGED <<params, hostFiles, cmd, virsh_args>>

\* line 165, and lines 118-120 of run_command_in_container
UnlessStart ==
    /\ pc = "unless"
    /\ IF Truthy(params.unless)
       THEN LET args == shlex_split(params.unless) IN
            IF args.ok
            THEN /\ procs' = Started("unless",
                        enter_namespace_args(params.conn, params.container) \o args.tokens)
                 /\ pc' = "unless_run"
                 /\ result' = result
            ELSE /\ Finish(Exception("ValueError"))
                 /\ procs' = procs
       ELSE /\ procs' = procs
            /\ pc' = "onlyif"
            /\ result' = result
    /\ UNCHANGED <<params, hostFiles, cmd, virsh_args, root, checked>>

\* lines 120-121 of run_command_in_container, 167-175 of main
UnlessReturn ==
    /\ pc = "unless_run"
    /\ \E rc \in RcValues, out \in OutValues, err \in ErrValues :
        /\ procs' = Returned(rc, out, err)
        /\ cmd' = procs[Len(procs)].argv
        /\ IF unless_skips(rc)
           THEN Finish(unless_skip_result(params.unless, cmd', or_empty(out), or_empty(err)))
           ELSE pc' = "onlyif" /\ result' = result
    /\ UNCHANGED <<params, hostFiles, virsh_args, root, checked>>

\* line 177, and lines 118-120 of run_command_in_container
OnlyifStart ==
    /\ pc = "onlyif"
    /\ IF Truthy(params.onlyif)
       THEN LET args == shlex_split(params.onlyif) IN
            IF args.ok
            THEN /\ procs' = Started("onlyif",
                        enter_namespace_args(params.conn, params.container) \o args.tokens)
                 /\ pc' = "onlyif_run"
                 /\ result' = result
            ELSE /\ Finish(Exception("ValueError"))
                 /\ procs' = procs
       ELSE /\ procs' = procs
            /\ pc' = "main"
            /\ result' = result
    /\ UNCHANGED <<params, hostFiles, cmd, virsh_args, root, checked>>

\* lines 120-121 of run_command_in_container, 179-187 of main
OnlyifReturn ==
    /\ pc = "onlyif_run"
    /\ \E rc \in RcValues, out \in OutValues, err \in ErrValues :
        /\ procs' = Returned(rc, out, err)
        /\ cmd' = procs[Len(procs)].argv
        /\ IF onlyif_skips(rc)
           THEN Finish(onlyif_skip_result(params.onlyif, cmd', or_empty(out), or_empty(err)))
           ELSE pc' = "main" /\ result' = result
    /\ UNCHANGED <<params, hostFiles, virsh_args, root, checked>>

\* lines 189-190
MainStart ==
    /\ pc = "main"
    /\ procs' = Started("main", virsh_args)
    /\ pc' = "main_run"
    /\ UNCHANGED <<params, hostFiles, cmd, virsh_args, root, checked, result>>

\* lines 190-208
MainReturn ==
    /\ pc = "main_run"
    /\ \E rc \in RcValues, out \in OutValues, err \in ErrValues :
        /\ procs' = Returned(rc, out, err)
        /\ Finish(main_result(virsh_args, cmd, rc, out, err))
    /\ UNCHANGED <<params, hostFiles, cmd, virsh_args, root, checked>>

Next ==
    \/ Validate
    \/ Tokenize
    \/ ConflictCheck
    \/ CreatesStart
    \/ CreatesReturn
    \/ UnlessStart
    \/ UnlessReturn
    \/ OnlyifStart
    \/ OnlyifReturn
    \/ MainStart
    \/ MainReturn

Spec == Init /\ [][Next]_vars

\* ================================================================ claims
Done == pc = "done"
ProcsAt(site) == {i \in 1..Len(procs) : procs[i].site = site}
MainExecuted == ProcsAt("main") # {}
Has(key) == key \in DOMAIN result.fields
Failed == result.kind = "fail_json" /\ Has("msg")
Skipped == result.kind = "exit_json" /\ Has("changed") /\ result.fields.changed = FALSE
NotNone == {k \in {"creates", "unless", "onlyif"} : params[k] # None}
\* the argument vector the main command runs with, for a command that tokenizes
MainVector ==
    enter_namespace_args(params.conn, params.container) \o shlex_split(params.cmd).tokens
\* what a result shows of a captured stream
Shown(stream) == rstrip(IF stream = None THEN <<>> ELSE stream, {"\r", "\n"})

\* C1: an invocation whose cmd is empty or whitespace-only, or that supplies
\* more than one of creates/unless/onlyif, ends with a failure result that
\* carries a msg, and no external process was started.
C1_ValidationErrorFails ==
    (Done /\ (strip_is_empty(params.cmd) \/ Cardinality(NotNone) > 1))
        => (Failed /\ procs = <<>>)

C3_UnlessSkips ==
    \A i \in ProcsAt("unless") :
        (Done /\ params.unless # None /\ procs[i].status = "done" /\ procs[i].rc = 0)
            => /\ Skipped /\ ~MainExecuted
               /\ Has("cmd") /\ result.fields.cmd = procs[i].argv
               /\ procs[i].argv = enter_namespace_args(params.conn, params.container)
                                     \o shlex_split(params.unless).tokens
               /\ Has("stdout") /\ result.fields.stdout = Shown(procs[i].out)
               /\ Has("stderr") /\ result.fields.stderr = Shown(procs[i].err)
               /\ Has("msg") /\ result.fields.msg[2] = params.unless

C3_Witness ==
    /\ Done /\ params.unless = <<"a">> /\ Len(procs) = 1
    /\ procs[1].site = "unless" /\ procs[1].rc = 0 /\ procs[1].out = <<"o", "\r", "\n">>
    /\ Skipped /\ result.fields.stdout = <<"o">>

\* C4: when onlyif is set, the main command is executed only if the onlyif
\* command, run inside the container, exited zero; after a non-zero guard exit
\* the invocation ends with changed=false, no main command was started, and
\* the result reports the guard's vector, captured output and a skip message.
C4_OnlyifGuards ==
    /\ (params.onlyif # None /\ MainExecuted)
        => \E i \in ProcsAt("onlyif") : procs[i].status = "done" /\ procs[i].rc = 0
    /\ \A i \in ProcsAt("onlyif") :
        (Done /\ procs[i].status = "done" /\ procs[i].rc # 0)
            => /\ Skipped /\ ~MainExecuted
               /\ Has("cmd") /\ result.fields.cmd = procs[i].argv
               /\ Has("stdout") /\ result.fields.stdout = Shown(procs[i].out)
               /\ Has("stderr") /\ result.fields.stderr = Shown(procs[i].err)
               /\ Has("msg")

\* C5: whenever the main command was executed, the result reports
\* changed=true and rc equal to the exit code of the main command, whatever
\* that code is; a result with changed=false means no main command was started.
C5_ChangedIffMainRan ==
    Done =>
        /\ \A i \in ProcsAt("main") :
              /\ result.kind = "exit_json"
              /\ Has("changed") /\ result.fields.changed = TRUE
              /\ Has("rc") /\ result.fields.rc = procs[i].rc
        /\ Skipped => ~MainExecuted

C5_Witness ==
    /\ Done /\ MainExecuted /\ procs[Len(procs)].rc = 1
    /\ result.fields.changed = TRUE /\ result.fields.rc = 1

\* C6: when creates is set and the container root cannot be resolved (the
\* dumpxml call exited non-zero, or the domain XML has no filesystem device
\* whose target dir is "/"), the invocation ends with a failure result that
\* carries a msg, no host path was checked and no main command was started.
C6_UnresolvedRootFails ==
    \A i \in ProcsAt("dumpxml") :
        (Done /\ params.creates # None /\ procs[i].status = "done"
              /\ (procs[i].rc # 0
                  \/ \A j \in 1..Len(procs[i].out) : procs[i].out[j].target # <<"/">>))
            => (Failed /\ checked = <<>> /\ ~MainExecuted)

C6_Witness ==
    /\ Done /\ Truthy(params.creates) /\ Len(procs) = 1 /\ procs[1].site = "dumpxml"
    /\ procs[1].rc # 0 /\ Len(procs[1].out) > 0 /\ procs[1].out[1].target = <<"/">>
    /\ procs[1].out[1].source = RootDir
    /\ Failed /\ checked = <<>>

\* C7: every result that reports a skip (changed=false because of a creates,
\* unless or onlyif guard) carries a msg field.
C7_SkipCarriesMsg ==
    (Done /\ Skipped) => Has("msg")

\* C8: at most two external processes are started: at most one guard or
\* lookup process (dumpxml, unless, onlyif) and at most one main process, and
\* the guard or lookup process has completed before the main process starts.
C8_AtMostTwoProcesses ==
    /\ Len(procs) <= 2
    /\ Cardinality(ProcsAt("dumpxml") \cup ProcsAt("unless") \cup ProcsAt("onlyif")) <= 1
    /\ Cardinality(ProcsAt("main")) <= 1
    /\ \A i \in 1..Len(procs) : \A j \in 1..Len(procs) :
          (i # j /\ procs[j].site = "main") => (i < j /\ procs[i].status = "done")

C8_Witness ==
    /\ Len(procs) = 2 /\ procs[1].site = "dumpxml" /\ procs[1].status = "done"
    /\ procs[2].site = "main" /\ procs[2].status = "running"

\* C9: for every direct run, the cmd of the result equals the vector passed
\* to the main process and equals [virsh, -c, conn, lxc-enter-namespace,
\* --noseclabel, container, --cmd] followed by tokenize(cmd), also after an
\* unless or onlyif guard that did not cause a skip.
C9_ReportedVector ==
    \A i \in ProcsAt("main") :
        Done => /\ Has("cmd")
                /\ result.fields.cmd = procs[i].argv
                /\ result.fields.cmd =
                      << <<"virsh">>, <<"-c">>, params.conn, <<"lxc-enter-namespace">>,
                         <<"--noseclabel">>, params.container, <<"--cmd">> >>
                      \o shlex_split(params.cmd).tokens

C9_Witness ==
    /\ Done /\ Len(procs) = 2 /\ procs[1].site = "onlyif" /\ procs[2].site = "main"
    /\ params.cmd = <<"a", " ">> /\ params.onlyif = <<" ">>
    /\ Len(result.fields.cmd) = 8 /\ result.fields.cmd[8] = <<"a">>
    /\ cmd = procs[1].argv /\ Len(cmd) = 7

\* C10: a guard parameter that counts toward the conflict check is one that
\* is evaluated: an invocation that supplies creates, unless or onlyif never
\* starts the main command without the lookup or guard command of that
\* parameter having run first.
C10_CountedGuardsEvaluated ==
    MainExecuted =>
        /\ params.creates # None => ProcsAt("dumpxml") # {}
        /\ params.unless # None => ProcsAt("unless") # {}
        /\ params.onlyif # None => ProcsAt("onlyif") # {}

====
